---- MODULE Spec2Model ----
(***************************************************************************)
(* Model of the update-wg scripts: update-wg.py rewrites the AllowedIPs    *)
(* line of a WireGuard config, update-wg-ipset.py loads an ipset, both     *)
(* from the block list                                                     *)
(*     (0.0.0.0/0 - (exclude.txt + RIPE feed widened to CUTOFF_PREFIX))    *)
(*         | include.txt                                                   *)
(* computed with netaddr (IPNetwork, IPSet, iprange_to_cidrs).             *)
(*                                                                         *)
(* Addresses are Width-bit unsigned integers (the scripts use 32 bits);    *)
(* a prefix length ranges over 0..Width.  The netaddr calls the scripts    *)
(* make are modelled by the algorithms netaddr runs for them (cidr_merge,  *)
(* cidr_partition, spanning_cidr, IPSet.difference).                       *)
(***************************************************************************)
EXTENDS Integers, Sequences, FiniteSets, TLC

\* Width of an address in bits.
Width == 3
\* Longest local list file (exclude.txt, include.txt), in lines.
MaxLines == 2
\* Longest RIPE feed, in entries.
MaxFeed == 2
\* Most runs of a script on one host.
MaxRuns == 3
\* Longest WireGuard config the rewrite of update-wg.py is given, in lines.
MaxConfig == 4

MaxInt == 2^Width - 1
Addresses == 0..MaxInt

(***************************************************************************)
(* Text entries.  A line of a list file or an element of the RIPE feed is  *)
(* a string; the model keeps what the scripts and netaddr read from it:    *)
(*   bare    "a.b.c.d"           ip                                        *)
(*   cidr    "a.b.c.d/n"         ip, plen                                  *)
(*   range   "a.b.c.d-e.f.g.h"   ip (start), end                           *)
(*   dashes  a token with more than one '-'                                *)
(*   text    a token that is no address ("not-an-ip")                      *)
(*   blank   an empty line;  comment   a line starting with '#'            *)
(* An ip above MaxInt stands for an octet out of range, a plen above       *)
(* Width (or below 0) for a prefix length out of range.  pad tells that    *)
(* the text has white space before or after it.                            *)
(***************************************************************************)
Entry(form, ip, plen, end) ==
    [form |-> form, ip |-> ip, plen |-> plen, end |-> end, pad |-> FALSE]
Bare(ip) == Entry("bare", ip, 0, 0)
CidrText(ip, plen) == Entry("cidr", ip, plen, 0)
RangeText(start, end) == Entry("range", start, 0, end)
Dashes == Entry("dashes", 0, 0, 0)
NotAnIp == Entry("text", 0, 0, 0)
BlankLine == Entry("blank", 0, 0, 0)
CommentLine == Entry("comment", 0, 0, 0)
\* the text with white space around it, and str.strip()
Padded(e) == [e EXCEPT !.pad = TRUE]
Strip(e) == [e EXCEPT !.pad = FALSE]

(***************************************************************************)
(* netaddr.IPNetwork: an address value (host bits kept) and a prefix       *)
(* length.                                                                 *)
(***************************************************************************)
Net(ip, prefixlen) == [ip |-> ip, prefixlen |-> prefixlen]
Size(prefixlen) == 2^(Width - prefixlen)
First(net) == net.ip - (net.ip % Size(net.prefixlen))
Last(net) == First(net) + Size(net.prefixlen) - 1
NetAddrs(net) == First(net)..Last(net)
\* IPNetwork.cidr: the same network with the host bits cleared
Cidr(net) == Net(First(net), net.prefixlen)
\* IPNetwork.__eq__ compares (first, last)
NetEq(a, b) == First(a) = First(b) /\ Last(a) = Last(b)
\* a in b (IPNetwork.__contains__): a lies within b
NetIn(a, b) == b.prefixlen <= a.prefixlen /\ First(b) <= First(a) /\ Last(a) <= Last(b)
\* IPNetwork.__lt__ (sort_key: first, prefix length, host bits)
NetLess(a, b) ==
    \/ First(a) < First(b)
    \/ First(a) = First(b) /\ a.prefixlen < b.prefixlen
    \/ First(a) = First(b) /\ a.prefixlen = b.prefixlen /\ a.ip < b.ip

\* IPNetwork(text) raises AddrFormatError unless text is an address or a CIDR
ParsesAsNetwork(e) ==
    \/ e.form = "bare" /\ e.ip \in Addresses
    \/ e.form = "cidr" /\ e.ip \in Addresses /\ e.plen \in 0..Width
\* IPNetwork(text): a bare address is a /Width network
IPNetwork(e) == Net(e.ip, IF e.form = "bare" THEN Width ELSE e.plen)
\* str(net): "ip/prefixlen", host bits as they are
Str(net) == CidrText(net.ip, net.prefixlen)

(***************************************************************************)
(* netaddr helpers behind iprange_to_cidrs and IPSet.                      *)
(***************************************************************************)
RECURSIVE Reverse(_)
Reverse(s) == IF s = <<>> THEN <<>> ELSE Append(Reverse(Tail(s)), Head(s))

RECURSIVE Flatten(_)
Flatten(ss) == IF ss = <<>> THEN <<>> ELSE Head(ss) \o Flatten(Tail(ss))

SeqToSet(s) == {s[i] : i \in DOMAIN s}

\* spanning_cidr's loop: widen the block at ipnum until it reaches down to lowest
RECURSIVE SpanLoop(_, _, _)
SpanLoop(ipnum, prefixlen, lowest) ==
    IF prefixlen > 0 /\ ipnum > lowest
    THEN SpanLoop(ipnum - (ipnum % Size(prefixlen - 1)), prefixlen - 1, lowest)
    ELSE Net(ipnum, prefixlen)

\* spanning_cidr([a, b]): the smallest block holding both networks
SpanningCidr(a, b) ==
    LET min_network == IF NetLess(a, b) THEN a ELSE b
        max_network == IF NetLess(a, b) THEN b ELSE a
    IN  SpanLoop(Last(max_network), max_network.prefixlen, First(min_network))

\* cidr_partition's loop: halve the target towards exclude, keeping the halves
\* left of it and right of it
RECURSIVE PartitionLoop(_, _, _, _, _)
PartitionLoop(exclude, new_prefixlen, i_lower, left, right) ==
    IF exclude.prefixlen >= new_prefixlen
    THEN LET i_upper == i_lower + Size(new_prefixlen)
             goes_left == First(exclude) >= i_upper
             left2 == IF goes_left THEN Append(left, Net(i_lower, new_prefixlen)) ELSE left
             right2 == IF goes_left THEN right ELSE Append(right, Net(i_upper, new_prefixlen))
             matched == IF goes_left THEN i_upper ELSE i_lower
         IN  IF new_prefixlen + 1 > Width
             THEN [left |-> left2, right |-> right2]
             ELSE PartitionLoop(exclude, new_prefixlen + 1, matched, left2, right2)
    ELSE [left |-> left, right |-> right]

\* cidr_partition(target, exclude): the blocks of target before exclude, exclude
\* itself (or target, when exclude covers it), and the blocks after it
CidrPartition(target, exclude) ==
    IF Last(exclude) < First(target)
    THEN [before |-> <<>>, hit |-> <<>>, after |-> <<Cidr(target)>>]
    ELSE IF Last(target) < First(exclude)
    THEN [before |-> <<Cidr(target)>>, hit |-> <<>>, after |-> <<>>]
    ELSE IF target.prefixlen >= exclude.prefixlen
    THEN [before |-> <<>>, hit |-> <<target>>, after |-> <<>>]
    ELSE LET r == PartitionLoop(exclude, target.prefixlen + 1, First(target), <<>>, <<>>)
         IN  [before |-> r.left, hit |-> <<exclude>>, after |-> Reverse(r.right)]

\* cidr_exclude(target, exclude): target without exclude, ascending
CidrExcludeBeforeOnly(target, exclude) == CidrPartition(target, exclude).before
CidrExclude(target, exclude) ==
    LET p == CidrPartition(target, exclude) IN p.before \o p.after

IprangeToCidrsSpanOnly(start, end) == <<SpanningCidr(start, end)>>

\* iprange_to_cidrs(start, end) on two networks: the spanning block, cut below
\* start.first and above end.last.  There is no check that start <= end.
IprangeToCidrs(start, end) ==
    LET lo == First(start)
        hi == Last(end)
        span == SpanningCidr(start, end)
        cut_low == First(span) < lo
        above == IF cut_low THEN CidrPartition(span, Net(lo - 1, Width)).after ELSE <<>>
        \* cidr_list.pop(): the last block above start - 1 is cut further
        cidr_list == IF cut_low THEN SubSeq(above, 1, Len(above) - 1) ELSE <<>>
        cidr_span == IF cut_low THEN above[Len(above)] ELSE span
    IN  IF Last(cidr_span) > hi
        THEN cidr_list \o CidrPartition(cidr_span, Net(hi + 1, Width)).before
        ELSE Append(cidr_list, cidr_span)

\* iprange_to_cidrs raises when an end of the range is no network, or when
\* pop() finds the list empty
IprangeRaises(start_ip, end_ip) ==
    \/ ~ParsesAsNetwork(start_ip)
    \/ ~ParsesAsNetwork(end_ip)
    \/ LET start == IPNetwork(start_ip)
           end == IPNetwork(end_ip)
           span == SpanningCidr(start, end)
       IN  /\ First(span) < First(start)
           /\ CidrPartition(span, Net(First(start) - 1, Width)).after = <<>>

(***************************************************************************)
(* netaddr.cidr_merge and netaddr.IPSet.  An IPSet is the set of its       *)
(* IPNetwork keys (_cidrs); iter_cidrs() sorts them.                       *)
(***************************************************************************)
\* the tuples cidr_merge sorts: (last, first, network); merged marks a tuple
\* that replaced two
RangeOf(net) == [last |-> Last(net), first |-> First(net), merged |-> FALSE, net |-> net]

RangeLess(a, b) ==
    \/ a.last < b.last
    \/ a.last = b.last /\ a.first < b.first
    \/ a.last = b.last /\ a.first = b.first /\ NetLess(a.net, b.net)

\* ranges.sort()
SortRangesNot(rs) == rs
RECURSIVE InsertRange(_, _)
InsertRange(r, sorted) ==
    IF sorted = <<>> THEN <<r>>
    ELSE IF RangeLess(r, Head(sorted)) THEN <<r>> \o sorted
    ELSE <<Head(sorted)>> \o InsertRange(r, Tail(sorted))

RECURSIVE SortRanges(_)
SortRanges(rs) == IF rs = <<>> THEN <<>> ELSE InsertRange(Head(rs), SortRanges(Tail(rs)))

\* the backward loop of cidr_merge: a range that overlaps or touches the one
\* before it is folded into it
MergeTest(a, b) == b.first - 1 <= a.last

RECURSIVE MergeRanges(_)
MergeRanges(rs) ==
    IF Len(rs) <= 1 THEN rs
    ELSE LET i == Len(rs)
             a == rs[i - 1]
             b == rs[i]
             min_first == IF a.first < b.first THEN a.first ELSE b.first
             joined == [last |-> b.last, first |-> min_first, merged |-> TRUE,
                        net |-> Net(min_first, Width)]
         IN  IF MergeTest(a, b)
             THEN MergeRanges(Append(SubSeq(rs, 1, i - 2), joined))
             ELSE Append(MergeRanges(SubSeq(rs, 1, i - 1)), b)

\* a range that was not merged gives back the network it came from, as it was
\* written; a merged one is split again by iprange_to_cidrs
RangeToNets(r) ==
    IF r.merged
    THEN IprangeToCidrs(Net(r.first, Width), Net(r.last, Width))
    ELSE <<r.net>>

\* cidr_merge(nets)
CidrMerge(nets) ==
    LET ranges == MergeRanges(SortRanges([i \in DOMAIN nets |-> RangeOf(nets[i])]))
    IN  Flatten([i \in DOMAIN ranges |-> RangeToNets(ranges[i])])

\* sorted(): ascending by IPNetwork order
RECURSIVE SetToSortedSeq(_)
SetToSortedSeq(S) ==
    IF S = {} THEN <<>>
    ELSE LET n == CHOOSE x \in S : \A y \in S : x = y \/ NetLess(x, y)
         IN  <<n>> \o SetToSortedSeq(S \ {n})

\* IPSet.iter_cidrs()
IterCidrs(ipset) == SetToSortedSeq(ipset)

\* IPSet(list of strings) raises when IPNetwork() rejects one of them
IPSetRaises(entries) == \E i \in DOMAIN entries : ~ParsesAsNetwork(entries[i])
\* IPSet(list of strings)
IPSet(entries) == SeqToSet(CidrMerge([i \in DOMAIN entries |-> IPNetwork(entries[i])]))

\* IPSet.difference: walk both sorted lists, cutting the networks of other out
\* of own
RECURSIVE DifferenceLoop(_, _, _)
DifferenceLoop(own_nets, other_nets, result) ==
    IF own_nets = <<>> THEN result
    ELSE IF other_nets = <<>> THEN result \cup SeqToSet(own_nets)
    ELSE LET own_cur == Head(own_nets)
             other_cur == Head(other_nets)
         IN  IF NetEq(own_cur, other_cur)
             THEN DifferenceLoop(Tail(own_nets), Tail(other_nets), result)
             ELSE IF NetIn(own_cur, other_cur)
             THEN DifferenceLoop(Tail(own_nets), other_nets, result)
             ELSE IF NetIn(other_cur, own_cur)
             THEN DifferenceLoop(CidrExclude(own_cur, other_cur) \o Tail(own_nets),
                                 Tail(other_nets), result)
             ELSE IF NetLess(own_cur, other_cur)
             THEN DifferenceLoop(Tail(own_nets), other_nets, result \cup {own_cur})
             ELSE DifferenceLoop(own_nets, Tail(other_nets), result)

\* own - other
IPSetDifference(own, other) == DifferenceLoop(IterCidrs(own), IterCidrs(other), {})

\* own | other: cidr_merge over the networks of both
IPSetUnion(own, other) == SeqToSet(CidrMerge(IterCidrs(own) \o IterCidrs(other)))

\* the addresses an IPSet, or a list of networks, covers
Covered(nets) == UNION {NetAddrs(n) : n \in nets}

(***************************************************************************)
(* The functions of the scripts.                                           *)
(***************************************************************************)
\* a list file: whether it exists, and its lines
File(exists, lines) == [exists |-> exists, lines |-> lines]

\* read_cidrs_from_file: no entries for a missing file; every line is
\* stripped, blank lines and comment lines are dropped, every other line is
\* kept
KeptLineCommentsKept(line) == line.form # "blank"
KeptLine(line) == line.form # "blank" /\ line.form # "comment"
ReadCidrsFromFileMissingAsLine(file) ==
    IF ~file.exists THEN <<NotAnIp>>
    ELSE SelectSeq([i \in DOMAIN file.lines |-> Strip(file.lines[i])], KeptLine)
ReadCidrsFromFile(file) ==
    IF ~file.exists THEN <<>>
    ELSE SelectSeq([i \in DOMAIN file.lines |-> Strip(file.lines[i])], KeptLine)

\* '-' in item
HasDash(item) == item.form \in {"range", "dashes", "text"}

\* normalize_ripe_ipv4_list, one item: the strings it adds to normalized.
\* start_ip, end_ip = item.split('-') raises unless there is exactly one '-'.
NormalizeItem(raw_item) ==
    LET item == Strip(raw_item)
    IN  IF HasDash(item)
        THEN IF item.form # "range" \/ IprangeRaises(Bare(item.ip), Bare(item.end))
             THEN <<>>
             ELSE LET cidrs == IprangeToCidrs(IPNetwork(Bare(item.ip)),
                                              IPNetwork(Bare(item.end)))
                  IN  [i \in DOMAIN cidrs |-> Str(cidrs[i])]
        ELSE IF ParsesAsNetwork(item) THEN <<Str(IPNetwork(item))>> ELSE <<>>

\* normalize_ripe_ipv4_list
NormalizeRipeIpv4List(ipv4_list) ==
    Flatten([i \in DOMAIN ipv4_list |-> NormalizeItem(ipv4_list[i])])

\* expand_small_networks, one item.  net.prefixlen = cutoff_prefix raises
\* unless 0 <= cutoff_prefix <= Width, and the item is then left out.
ExpandItemNoWidening(item, cutoff_prefix) ==
    IF ParsesAsNetwork(item) THEN <<Str(IPNetwork(item))>> ELSE <<>>
ExpandItemUnmasked(item, cutoff_prefix) ==
    IF ~ParsesAsNetwork(item) THEN <<>>
    ELSE LET net == IPNetwork(item)
         IN  IF net.prefixlen > cutoff_prefix
             THEN IF cutoff_prefix \in 0..Width
                  THEN <<Str(Net(net.ip, cutoff_prefix))>>
                  ELSE <<>>
             ELSE <<Str(net)>>
ExpandItemNarrowDropped(item, cutoff_prefix) ==
    IF ~ParsesAsNetwork(item) THEN <<>>
    ELSE LET net == IPNetwork(item)
         IN  IF net.prefixlen > cutoff_prefix THEN <<>> ELSE <<Str(net)>>
ExpandItem(item, cutoff_prefix) ==
    IF ~ParsesAsNetwork(item) THEN <<>>
    ELSE LET net == IPNetwork(item)
         IN  IF net.prefixlen > cutoff_prefix
             THEN IF cutoff_prefix \in 0..Width
                  THEN <<Str(Cidr(Net(net.ip, cutoff_prefix)))>>
                  ELSE <<>>
             ELSE <<Str(net)>>

\* expand_small_networks
ExpandSmallNetworks(cidr_list, cutoff_prefix) ==
    Flatten([i \in DOMAIN cidr_list |-> ExpandItem(cidr_list[i], cutoff_prefix)])

\* main, step 3: all_excludes = local_excludes + ripe_processed
AllExcludesWithoutLocal(local, processed) == processed
AllExcludes(local, processed) == local \o processed

\* full_ipv4 = IPSet(['0.0.0.0/0'])
FullIpv4 == IPSet(<<CidrText(0, 0)>>)

\* main, step 5: allowed_ipv4 = full_ipv4 - excluded_set
AllowedFrom(excluded_set) == IPSetDifference(FullIpv4, excluded_set)

\* main, step 6: include.txt is added to the allowed set when it has entries
IncludeIgnored(allowed_ipv4, include_cidrs) == allowed_ipv4
AddInclude(allowed_ipv4, include_cidrs) ==
    IF include_cidrs # <<>>
    THEN IPSetUnion(allowed_ipv4, IPSet(include_cidrs))
    ELSE allowed_ipv4

\* main, step 7: allowed_cidrs = [str(cidr) for cidr in allowed_ipv4.iter_cidrs()]
CidrStrings(ipset) == LET cidrs == IterCidrs(ipset) IN [i \in DOMAIN cidrs |-> Str(cidrs[i])]

(***************************************************************************)
(* The WireGuard config: a sequence of lines.  An AllowedIPs line carries  *)
(* the block list written after 'AllowedIPs = '.  The content is followed  *)
(* line by line; whether its last line ends with a newline is not.         *)
(***************************************************************************)
OtherLine(text) == [kind |-> "other", text |-> text, value |-> <<>>]
EmptyLine == [kind |-> "blank", text |-> "", value |-> <<>>]
AllowedIpsLine(cidrs) == [kind |-> "allowed", text |-> "AllowedIPs", value |-> cidrs]

\* content.rstrip(): trailing blank lines go
RECURSIVE Rstrip(_)
Rstrip(content) ==
    IF content # <<>> /\ content[Len(content)].kind = "blank"
    THEN Rstrip(SubSeq(content, 1, Len(content) - 1))
    ELSE content

\* the \s* after '=' when nothing but white space follows it on the line: it
\* runs over the newline and the blank lines that follow, and .* takes the
\* next line that is not blank; what is left of the content
RECURSIVE AfterEmptyValue(_)
AfterEmptyValue(content) ==
    IF content = <<>> THEN <<>>
    ELSE IF Head(content).kind = "blank" THEN AfterEmptyValue(Tail(content))
    ELSE Tail(content)

\* re.sub(r'^(\s*AllowedIPs\s*=\s*).*$', line, content, flags=re.MULTILINE):
\* every AllowedIPs line becomes line; the leading \s* also takes the blank
\* lines right before it, and the \s* after '=' what follows a line without
\* a value
RECURSIVE SubAllowedIps(_, _, _)
SubAllowedIps(content, line, blanks) ==
    IF content = <<>> THEN blanks
    ELSE LET head == Head(content)
         IN  IF head.kind = "allowed"
             THEN IF head.value = <<>>
                  THEN <<line>> \o SubAllowedIps(AfterEmptyValue(Tail(content)), line, <<>>)
                  ELSE <<line>> \o SubAllowedIps(Tail(content), line, <<>>)
             ELSE IF head.kind = "blank"
             THEN SubAllowedIps(Tail(content), line, Append(blanks, head))
             ELSE blanks \o <<head>> \o SubAllowedIps(Tail(content), line, <<>>)

\* main, steps 8-10 of update-wg.py: the new content of the config
NewConfigContent(config_content, allowed_cidrs) ==
    LET allowed_ips_line == AllowedIpsLine(allowed_cidrs)
    IN  IF \E i \in DOMAIN config_content : config_content[i].kind = "allowed"
        THEN SubAllowedIps(config_content, allowed_ips_line, <<>>)
        ELSE \* config_content.rstrip() + '\n' + allowed_ips_line + '\n': the
             \* '\n' is a line of its own when rstrip() leaves nothing
             IF Rstrip(config_content) = <<>>
             THEN <<EmptyLine, allowed_ips_line>>
             ELSE Append(Rstrip(config_content), allowed_ips_line)

(***************************************************************************)
(* update_wireguard_config_for_ipset.  The file is taken to end with a     *)
(* newline, so that content.split('\n') ends with an empty string.         *)
(***************************************************************************)
TableOffLine == [kind |-> "table", text |-> "Table = off", value |-> <<>>]
CommentedLine(line) == [kind |-> "commented", text |-> "# AllowedIPs", value |-> line.value]
\* 'AllowedIPs = 0.0.0.0/32'
MinimalAllowedIps == AllowedIpsLine(<<CidrText(0, Width)>>)

\* line.strip().startswith('[')
IsSection(line) == line.kind = "other" /\ line.text \in {"[Interface]", "[Peer]"}

\* the loop over the lines: Table = off goes into [Interface], the first
\* AllowedIPs line met outside of it is commented out
RECURSIVE ConfigLoop(_, _, _, _, _)
ConfigLoop(lines, interface_section_found, table_param_added, allowed_ips_commented, new_lines) ==
    IF lines = <<>>
    THEN \* the empty string after the last newline
         [new_lines |-> IF interface_section_found /\ ~table_param_added
                        THEN Append(new_lines, TableOffLine) ELSE new_lines,
          allowed_ips_commented |-> allowed_ips_commented]
    ELSE LET line == Head(lines)
             rest == Tail(lines)
         IN  IF line.kind = "other" /\ line.text = "[Interface]"
             THEN ConfigLoop(rest, TRUE, table_param_added, allowed_ips_commented,
                             Append(new_lines, line))
             ELSE IF interface_section_found /\ ~table_param_added /\ ~IsSection(line)
             THEN IF line.kind = "table"
                  THEN ConfigLoop(rest, TRUE, TRUE, allowed_ips_commented,
                                  Append(new_lines, TableOffLine))
                  ELSE IF line.kind = "blank"
                  THEN ConfigLoop(rest, TRUE, TRUE, allowed_ips_commented,
                                  new_lines \o <<TableOffLine, line>>)
                  ELSE ConfigLoop(rest, TRUE, FALSE, allowed_ips_commented,
                                  Append(new_lines, line))
             ELSE IF IsSection(line) /\ interface_section_found /\ ~table_param_added
             THEN ConfigLoop(rest, FALSE, TRUE, allowed_ips_commented,
                             new_lines \o <<TableOffLine, line>>)
             ELSE IF line.kind = "allowed" /\ ~allowed_ips_commented
             THEN ConfigLoop(rest, interface_section_found, table_param_added, TRUE,
                             Append(new_lines, CommentedLine(line)))
             ELSE ConfigLoop(rest, interface_section_found, table_param_added,
                             allowed_ips_commented, Append(new_lines, line))

\* the last line of the run of lines of one kind that starts after line i
RECURSIVE RunEnd(_, _, _)
RunEnd(content, i, kind) ==
    IF i < Len(content) /\ content[i + 1].kind = kind
    THEN RunEnd(content, i + 1, kind)
    ELSE i

InsertAfter(content, i, line) ==
    SubSeq(content, 1, i) \o <<line>> \o SubSeq(content, i + 1, Len(content))

\* (?!\s*AllowedIPs) after line j: the next line that is not blank is no
\* AllowedIPs line
LookaheadOk(content, j) ==
    LET k == RunEnd(content, j, "blank")
    IN  ~(k < Len(content) /\ content[k + 1].kind = "allowed")

\* the two re.sub(..., count=1) that put 'AllowedIPs = 0.0.0.0/32' under
\* [Peer]: right after [Peer] and the blank lines under it when no line was
\* commented out; otherwise after the commented AllowedIPs lines that follow,
\* as far back as the lookahead asks, at the first [Peer] where it can be met
RECURSIVE AddMinimalAllowedIps(_, _, _)
AddMinimalAllowedIps(content, allowed_ips_commented, from) ==
    LET peers == {i \in from..Len(content) :
                    content[i].kind = "other" /\ content[i].text = "[Peer]"}
    IN  IF peers = {} THEN content
        ELSE LET p == CHOOSE i \in peers : \A j \in peers : i <= j
                 q == RunEnd(content, p, "blank")
                 r == RunEnd(content, q, "commented")
                 ok == {j \in p..r : LookaheadOk(content, j)}
             IN  IF ~allowed_ips_commented
                 THEN InsertAfter(content, q, MinimalAllowedIps)
                 ELSE IF ok # {}
                 THEN InsertAfter(content, CHOOSE j \in ok : \A k \in ok : k <= j,
                                  MinimalAllowedIps)
                 ELSE AddMinimalAllowedIps(content, allowed_ips_commented, p + 1)

\* update_wireguard_config_for_ipset: the content it writes
UpdateWireguardConfigForIpset(content) ==
    LET loop == ConfigLoop(content, FALSE, FALSE, FALSE, <<>>)
    IN  AddMinimalAllowedIps(loop.new_lines, loop.allowed_ips_commented, 1)

(***************************************************************************)
(* The inputs of a run.                                                    *)
(***************************************************************************)
SeqsUpTo(S, n) == UNION {[1..k -> S] : k \in 0..n}

\* lines of exclude.txt and include.txt: an address, a CIDR, a CIDR written
\* with host bits, a range, and a line that is no address
ExcludeLines == {Bare(5), CidrText(4, 1), CidrText(1, 2), RangeText(1, 2), NotAnIp}
IncludeLines == {Bare(5), CidrText(1, 2), CidrText(6, 2), RangeText(6, 7), NotAnIp}
ExcludeFiles == {File(FALSE, <<>>)} \cup {File(TRUE, l) : l \in SeqsUpTo(ExcludeLines, MaxLines)}
IncludeFiles == {File(FALSE, <<>>)} \cup {File(TRUE, l) : l \in SeqsUpTo(IncludeLines, 1)}

\* entries of the RIPE resource list: CIDRs, ranges, and the malformed ones (a
\* range running backwards, two dashes, a prefix length and an octet out of
\* range)
FeedEntries ==
    {CidrText(6, Width), CidrText(3, 1), RangeText(1, 3),
     RangeText(5, 1), Dashes, CidrText(0, Width + 1), Bare(MaxInt + 1)}
Feeds == SeqsUpTo(FeedEntries, MaxFeed)

\* values of CUTOFF_PREFIX, in and out of 0..Width
CutoffPrefixes == -1..(Width + 1)

\* the config before the run
OldConfig ==
    <<OtherLine("[Interface]"), EmptyLine, OtherLine("[Peer]"),
      AllowedIpsLine(<<CidrText(0, 0)>>)>>

(***************************************************************************)
(* The host update-wg-ipset.py acts on: the policy rules with FW_MARK, the *)
(* two iptables MARK rules, the default route of table ROUTE_TABLE_ID,     *)
(* /etc/iproute2/rt_tables, the WireGuard interface and the files          *)
(* save_persistent_config writes.                                          *)
(***************************************************************************)
\* setup_routing_rules: max_wait and wait_interval, in seconds
max_wait == 20
wait_interval == 2

HostState(ip_rules, mark_rules, default_route, rt_exists, rt_entries, rt_indented) ==
    [ip_rules |-> ip_rules,                \* 'ip rule' entries with fwmark FW_MARK
     output_rules |-> mark_rules,          \* MARK rules of the OUTPUT chain
     prerouting_rules |-> mark_rules,      \* MARK rules of mangle PREROUTING
     default_route |-> default_route,      \* table ROUTE_TABLE_ID has 'default dev wg1'
     rt_tables_exists |-> rt_exists,       \* /etc/iproute2/rt_tables is there
     rt_tables_entries |-> rt_entries,     \* its lines '1000 wg1_table'
     rt_tables_indented |-> rt_indented,   \* it has ' 1000 wg1_table' after a space
     interface |-> "old",                  \* "old", "new" (restarted by this run), "failed"
     saved |-> FALSE]                      \* save_persistent_config wrote its files

\* a host the script never ran on, with and without an rt_tables file
FreshHost == HostState(0, 0, FALSE, TRUE, 0, FALSE)
BareHost == HostState(0, 0, FALSE, FALSE, 0, FALSE)
\* a host on which a run of the script went through
HostAfterRun == HostState(1, 1, TRUE, TRUE, 1, FALSE)
\* a host whose rt_tables names the table on an indented line
HostWithTableNamed == HostState(0, 0, FALSE, TRUE, 0, TRUE)

\* one pass of the loop of setup_routing_rules: its number, the checks that
\* passed, whether 'ip route add' was issued and whether the route was then
\* found in the table
Poll(n, link_up, has_inet, state_up, handshake, route_add, confirmed) ==
    [n |-> n, link_up |-> link_up, has_inet |-> has_inet, state_up |-> state_up,
     handshake |-> handshake, route_add |-> route_add, confirmed |-> confirmed]
NoPoll == Poll(0, FALSE, FALSE, FALSE, FALSE, FALSE, FALSE)

(***************************************************************************)
(* State.                                                                  *)
(***************************************************************************)
VARIABLES
    pc,              \* where main() is, or how it ended
    cutoff_prefix,   \* CUTOFF_PREFIX
    exclude_file,    \* EXCLUDE_FILE
    include_file,    \* INCLUDE_FILE, as main() finds it when it reads it
    raw_ipv4_list,   \* get_ripe_country_ipv4: data['data']['resources']['ipv4']
    normalized,      \* get_ripe_country_ipv4: the normalized list
    local_excludes,
    ripe_raw,
    ripe_processed,
    excluded_set,
    include_cidrs,
    allowed_cidrs,
    wg_config,       \* content of WG_CONFIG_FILE
    script,          \* the script that runs: "update-wg" or "update-wg-ipset"
    ipset_exists,    \* the kernel has an ipset IPSET_NAME
    ipset_members,   \* its members
    add_index,       \* update-wg-ipset.py: i of the loop over allowed_cidrs
    host,            \* the rules, routes and files of the host (HostState)
    waited,          \* setup_routing_rules: waited
    poll,            \* setup_routing_rules: what the last pass of its loop saw
    runs             \* the runs of the script the host has seen, this one included

vars == <<pc, cutoff_prefix, exclude_file, include_file, raw_ipv4_list, normalized,
          local_excludes, ripe_raw, ripe_processed, excluded_set, include_cidrs,
          allowed_cidrs, wg_config, script, ipset_exists, ipset_members, add_index,
          host, waited, poll, runs>>

\* what the steps before main()'s step 9 leave alone
routing == <<host, waited, poll, runs>>

\* what the steps of the computation leave alone
consumers == <<wg_config, script, ipset_exists, ipset_members, add_index, routing>>

Init ==
    /\ pc = "read_excludes"
    /\ cutoff_prefix \in CutoffPrefixes
    /\ exclude_file \in ExcludeFiles
    /\ include_file = File(FALSE, <<>>)
    /\ raw_ipv4_list = <<>>
    /\ normalized = <<>>
    /\ local_excludes = <<>>
    /\ ripe_raw = <<>>
    /\ ripe_processed = <<>>
    /\ excluded_set = {}
    /\ include_cidrs = <<>>
    /\ allowed_cidrs = <<>>
    /\ wg_config = OldConfig
    /\ script = "update-wg"
    /\ ipset_exists = FALSE
    /\ ipset_members = {}
    /\ add_index = 0
    /\ host = FreshHost
    /\ waited = 0
    /\ poll = NoPoll
    /\ runs = 1

\* main, step 1: local_excludes = read_cidrs_from_file(EXCLUDE_FILE)
ReadExcludes ==
    /\ pc = "read_excludes"
    /\ local_excludes' = ReadCidrsFromFile(exclude_file)
    /\ pc' = "get_ripe"
    /\ UNCHANGED <<cutoff_prefix, exclude_file, include_file, raw_ipv4_list, normalized,
                   ripe_raw, ripe_processed, excluded_set, include_cidrs, allowed_cidrs, consumers>>

\* get_ripe_country_ipv4: the answer arrives and is normalized
GetRipeCountryIpv4 ==
    /\ pc = "get_ripe"
    /\ \E answer \in Feeds :
        /\ raw_ipv4_list' = answer
        /\ normalized' = NormalizeRipeIpv4List(answer)
    /\ pc' = "get_ripe_return"
    /\ UNCHANGED <<cutoff_prefix, exclude_file, include_file, local_excludes, ripe_raw,
                   ripe_processed, excluded_set, include_cidrs, allowed_cidrs, consumers>>

\* get_ripe_country_ipv4: the request or the decoding of the answer raises,
\* sys.exit(1)
GetRipeFails ==
    /\ pc = "get_ripe"
    /\ pc' = "exit_get_ripe"
    /\ UNCHANGED <<cutoff_prefix, exclude_file, include_file, raw_ipv4_list, normalized,
                   local_excludes, ripe_raw, ripe_processed, excluded_set, include_cidrs,
                   allowed_cidrs, consumers>>

\* get_ripe_country_ipv4 returns: ripe_raw = normalized, the locals are gone
GetRipeReturns ==
    /\ pc = "get_ripe_return"
    /\ ripe_raw' = normalized
    /\ raw_ipv4_list' = <<>>
    /\ normalized' = <<>>
    /\ pc' = "expand"
    /\ UNCHANGED <<cutoff_prefix, exclude_file, include_file, local_excludes,
                   ripe_processed, excluded_set, include_cidrs, allowed_cidrs, consumers>>

\* main, step 2: ripe_processed = expand_small_networks(ripe_raw, CUTOFF_PREFIX)
ExpandRipe ==
    /\ pc = "expand"
    /\ ripe_processed' = ExpandSmallNetworks(ripe_raw, cutoff_prefix)
    /\ pc' = "build_excluded"
    /\ UNCHANGED <<cutoff_prefix, exclude_file, include_file, raw_ipv4_list, normalized,
                   local_excludes, ripe_raw, excluded_set, include_cidrs, allowed_cidrs, consumers>>

\* main, steps 3-4: excluded_set = IPSet(local_excludes + ripe_processed);
\* sys.exit(1) when IPSet raises
BuildExcluded ==
    /\ pc = "build_excluded"
    /\ LET all_excludes == AllExcludes(local_excludes, ripe_processed)
       IN  IF IPSetRaises(all_excludes)
           THEN /\ pc' = "exit_ipset_error"
                /\ UNCHANGED excluded_set
           ELSE /\ pc' = "add_include"
                /\ excluded_set' = IPSet(all_excludes)
    /\ UNCHANGED <<cutoff_prefix, exclude_file, include_file, raw_ipv4_list, normalized,
                   local_excludes, ripe_raw, ripe_processed, include_cidrs, allowed_cidrs, consumers>>

\* main, steps 5-7: the allowed set, include.txt read and added to it, and the
\* list of its blocks; IPSet(include_cidrs) raising is caught nowhere
ComputeAllowed ==
    /\ pc = "add_include"
    /\ \E file \in IncludeFiles :
        /\ include_file' = file
        /\ include_cidrs' = ReadCidrsFromFile(file)
    /\ IF include_cidrs' # <<>> /\ IPSetRaises(include_cidrs')
       THEN /\ pc' = "crash_include"
            /\ UNCHANGED allowed_cidrs
       ELSE /\ pc' = IF script = "update-wg" THEN "write_config" ELSE "create_ipset"
            /\ allowed_cidrs' = CidrStrings(AddInclude(AllowedFrom(excluded_set), include_cidrs'))
    /\ UNCHANGED <<cutoff_prefix, exclude_file, raw_ipv4_list, normalized, local_excludes,
                   ripe_raw, ripe_processed, excluded_set, consumers>>

\* main, steps 8-11 of update-wg.py: the AllowedIPs line is put into the config
WriteConfig ==
    /\ pc = "write_config"
    /\ wg_config' = NewConfigContent(wg_config, allowed_cidrs)
    /\ pc' = "restart"
    /\ UNCHANGED <<cutoff_prefix, exclude_file, include_file, raw_ipv4_list, normalized,
                   local_excludes, ripe_raw, ripe_processed, excluded_set, include_cidrs,
                   allowed_cidrs, script, ipset_exists, ipset_members, add_index, routing>>

\* apply_config_and_restart: systemctl start succeeds, or fails and
\* subprocess.run(check=True) raises
ApplyConfigAndRestart ==
    /\ pc = "restart"
    /\ pc' \in {"done", "crash_restart"}
    /\ UNCHANGED <<cutoff_prefix, exclude_file, include_file, raw_ipv4_list, normalized,
                   local_excludes, ripe_raw, ripe_processed, excluded_set, include_cidrs,
                   allowed_cidrs, consumers>>

Next ==
    \/ ReadExcludes
    \/ GetRipeCountryIpv4
    \/ GetRipeFails
    \/ GetRipeReturns
    \/ ExpandRipe
    \/ BuildExcluded
    \/ ComputeAllowed
    \/ WriteConfig
    \/ ApplyConfigAndRestart

Spec == Init /\ [][Next]_vars

(***************************************************************************)
(* update-wg-ipset.py: the same computation, then the ipset is loaded.     *)
(* main() goes on from there to the routing rules, the iptables rules, the *)
(* config and the restart of the interface.                                *)
(***************************************************************************)
\* the ipset a former run left behind
StaleMembers == {CidrText(2, Width)}

InitIpset ==
    /\ pc = "check_dependencies"
    /\ cutoff_prefix \in 0..Width
    /\ exclude_file \in {File(FALSE, <<>>)} \cup {File(TRUE, l) : l \in SeqsUpTo(ExcludeLines, 1)}
    /\ include_file = File(FALSE, <<>>)
    /\ raw_ipv4_list = <<>>
    /\ normalized = <<>>
    /\ local_excludes = <<>>
    /\ ripe_raw = <<>>
    /\ ripe_processed = <<>>
    /\ excluded_set = {}
    /\ include_cidrs = <<>>
    /\ allowed_cidrs = <<>>
    /\ wg_config = OldConfig
    /\ script = "update-wg-ipset"
    /\ ipset_exists \in BOOLEAN
    /\ ipset_members = IF ipset_exists THEN StaleMembers ELSE {}
    /\ add_index = 0
    /\ host = IF ipset_exists THEN HostAfterRun ELSE FreshHost
    /\ waited = 0
    /\ poll = NoPoll
    /\ runs = 1

\* check_dependencies: sys.exit(1) when ipset, iptables, wg or ip is missing
CheckDependencies ==
    /\ pc = "check_dependencies"
    /\ pc' \in {"read_excludes", "exit_dependencies"}
    /\ UNCHANGED <<cutoff_prefix, exclude_file, include_file, raw_ipv4_list, normalized,
                   local_excludes, ripe_raw, ripe_processed, excluded_set, include_cidrs,
                   allowed_cidrs, consumers>>

\* 'ipset flush': what is left of the members of the set
IpsetFlushKeeps(members) == members
IpsetFlush(members) == {}

\* create_ipset: 'ipset list' fails for a set that is not there and the set is
\* created; a set that is there is flushed
CreateIpset ==
    /\ pc = "create_ipset"
    /\ IF ~ipset_exists
       THEN /\ ipset_exists' = TRUE
            /\ ipset_members' = {}
       ELSE /\ ipset_members' = IpsetFlush(ipset_members)
            /\ UNCHANGED ipset_exists
    /\ pc' = "flush_ipset"
    /\ UNCHANGED <<cutoff_prefix, exclude_file, include_file, raw_ipv4_list, normalized,
                   local_excludes, ripe_raw, ripe_processed, excluded_set, include_cidrs,
                   allowed_cidrs, wg_config, script, add_index, routing>>

\* flush_ipset
FlushIpset ==
    /\ pc = "flush_ipset"
    /\ ipset_members' = IpsetFlush(ipset_members)
    /\ add_index' = 0
    /\ pc' = "add_to_ipset"
    /\ UNCHANGED <<cutoff_prefix, exclude_file, include_file, raw_ipv4_list, normalized,
                   local_excludes, ripe_raw, ripe_processed, excluded_set, include_cidrs,
                   allowed_cidrs, wg_config, script, ipset_exists, routing>>

\* add_to_ipset, once per block of allowed_cidrs: execute_command_no_check
\* looks at no return code, so a block 'ipset add' refuses is passed over
AddToIpset ==
    /\ pc = "add_to_ipset"
    /\ add_index < Len(allowed_cidrs)
    /\ \E added \in BOOLEAN :
        ipset_members' = IF added
                         THEN ipset_members \cup {allowed_cidrs[add_index + 1]}
                         ELSE ipset_members
    /\ add_index' = add_index + 1
    /\ UNCHANGED <<pc, cutoff_prefix, exclude_file, include_file, raw_ipv4_list,
                   normalized, local_excludes, ripe_raw, ripe_processed, excluded_set,
                   include_cidrs, allowed_cidrs, wg_config, script, ipset_exists, routing>>

\* the loop over allowed_cidrs is over; main() goes on to cleanup_routing_rules
IpsetLoaded ==
    /\ pc = "add_to_ipset"
    /\ add_index = Len(allowed_cidrs)
    /\ pc' = "cleanup_routing_rules"
    /\ UNCHANGED <<cutoff_prefix, exclude_file, include_file, raw_ipv4_list, normalized,
                   local_excludes, ripe_raw, ripe_processed, excluded_set, include_cidrs,
                   allowed_cidrs, consumers>>

NextIpset ==
    \/ CheckDependencies
    \/ ReadExcludes
    \/ GetRipeCountryIpv4
    \/ GetRipeFails
    \/ GetRipeReturns
    \/ ExpandRipe
    \/ BuildExcluded
    \/ ComputeAllowed
    \/ CreateIpset
    \/ FlushIpset
    \/ AddToIpset
    \/ IpsetLoaded

SpecIpset == InitIpset /\ [][NextIpset]_vars

(***************************************************************************)
(* update-wg-ipset.py, steps 9 to 14 of main(): the old policy rules are   *)
(* removed, the MARK rules installed, the config rewritten, the interface  *)
(* restarted, the routing set up once the interface is ready, and the      *)
(* state saved.  The ip and iptables commands act as they do for root on a *)
(* host that has them; the answers of the interface, the restart and the   *)
(* route are the host's to give.                                           *)
(***************************************************************************)
\* what steps 9 to 14 leave alone
loaded == <<cutoff_prefix, exclude_file, include_file, raw_ipv4_list, normalized,
            local_excludes, ripe_raw, ripe_processed, excluded_set, include_cidrs,
            allowed_cidrs, script, ipset_exists, ipset_members, add_index, runs>>

InitRouting ==
    /\ pc = "check_dependencies"
    /\ cutoff_prefix = 0
    /\ exclude_file = File(FALSE, <<>>)
    /\ include_file = File(FALSE, <<>>)
    /\ raw_ipv4_list = <<>>
    /\ normalized = <<>>
    /\ local_excludes = <<>>
    /\ ripe_raw = <<>>
    /\ ripe_processed = <<>>
    /\ excluded_set = {}
    /\ include_cidrs = <<>>
    /\ allowed_cidrs = <<>>
    /\ wg_config = OldConfig
    /\ script = "update-wg-ipset"
    /\ host \in {FreshHost, BareHost, HostAfterRun, HostWithTableNamed}
    /\ ipset_exists = (host = HostAfterRun)
    /\ ipset_members = IF ipset_exists THEN StaleMembers ELSE {}
    /\ add_index = 0
    /\ waited = 0
    /\ poll = NoPoll
    /\ runs = 1

\* cleanup_routing_rules: 'ip rule del <number>' for every rule listed with
\* the fwmark, each of which may or may not take, then one
\* 'ip rule del fwmark FW_MARK table ROUTE_TABLE_ID'
CleanupRoutingRules ==
    /\ pc = "cleanup_routing_rules"
    /\ \E deleted \in 0..host.ip_rules :
        LET left == host.ip_rules - deleted
        IN  host' = [host EXCEPT !.ip_rules = IF left > 0 THEN left - 1 ELSE 0]
    /\ pc' = "setup_iptables_rules"
    /\ UNCHANGED <<loaded, wg_config, waited, poll>>

\* cleanup_iptables_rules, for one chain: 'iptables -D' takes one MARK rule
\* of the chain away when there is one
CleanupIptablesRulesSkipped(rules) == rules
CleanupIptablesRules(rules) == IF rules > 0 THEN rules - 1 ELSE 0

\* setup_iptables_rules: cleanup_iptables_rules deletes one OUTPUT and one
\* PREROUTING rule if there is one, then one of each is appended
SetupIptablesRules ==
    /\ pc = "setup_iptables_rules"
    /\ host' = [host EXCEPT
                    !.output_rules = CleanupIptablesRules(@) + 1,
                    !.prerouting_rules = CleanupIptablesRules(@) + 1]
    /\ pc' = "update_wireguard_config"
    /\ UNCHANGED <<loaded, wg_config, waited, poll>>

\* update_wireguard_config_for_ipset: the config is rewritten, or reading or
\* writing it raises and the run ends with sys.exit(1)
UpdateWireguardConfig ==
    /\ pc = "update_wireguard_config"
    /\ \/ /\ wg_config' = UpdateWireguardConfigForIpset(wg_config)
          /\ pc' = "restart_interface"
       \/ /\ pc' = "exit_config_error"
          /\ UNCHANGED wg_config
    /\ UNCHANGED <<loaded, host, waited, poll>>

\* main, step 12: where the run goes after 'systemctl restart'
AfterRestartFailureIgnored(ok) == "setup_routing_rules"
AfterRestart(ok) == IF ok THEN "setup_routing_rules" ELSE "exit_restart"

\* main, step 12: the interface is restarted, which takes its routes away;
\* when the restart fails the run ends with sys.exit(1)
RestartInterface ==
    /\ pc = "restart_interface"
    /\ \E ok \in BOOLEAN, route_kept \in BOOLEAN :
        /\ host' = [host EXCEPT
                        !.interface = IF ok THEN "new" ELSE "failed",
                        !.default_route = @ /\ ~ok /\ route_kept]
        /\ pc' = AfterRestart(ok)
    /\ UNCHANGED <<loaded, wg_config, waited, poll>>

\* setup_routing_rules up to its loop: rt_tables gets the line
\* '1000 wg1_table' unless ' 1000 wg1_table' is found in it, and the policy
\* rule is added
SetupRoutingRules ==
    /\ pc = "setup_routing_rules"
    /\ LET table_exists == host.rt_tables_exists /\ host.rt_tables_indented
       IN  host' = [host EXCEPT
                       !.rt_tables_exists = TRUE,
                       !.rt_tables_entries = IF table_exists THEN @ ELSE @ + 1,
                       !.ip_rules = @ + 1]
    /\ waited' = 0
    /\ pc' = "wait_interface"
    /\ UNCHANGED <<loaded, wg_config, poll>>

\* the four checks of a pass of the loop
ReadyWithoutHandshake(link_up, has_inet, state_up, handshake) ==
    link_up /\ has_inet /\ state_up
Ready(link_up, has_inet, state_up, handshake) ==
    link_up /\ has_inet /\ state_up /\ handshake

\* break: the route was looked for after 'ip route add' and found
LeavesLoopUnconfirmed(ready, confirmed) == ready
LeavesLoop(ready, confirmed) == ready /\ confirmed

\* one pass of the loop of setup_routing_rules: 'ip link show wg1 up',
\* 'ip addr show wg1' (inet, state UP), 'wg show wg1' (latest handshake),
\* each looked at only when the one before passed; then 'ip route add
\* default', 'ip route show table' and break, or sleep
WaitForInterface ==
    /\ pc = "wait_interface"
    /\ waited < max_wait
    /\ \E link \in BOOLEAN, inet \in BOOLEAN, state \in BOOLEAN, shake \in BOOLEAN,
          added \in BOOLEAN :
        LET link_up == link
            has_inet == link_up /\ inet
            state_up == has_inet /\ state
            handshake == state_up /\ shake
            ready == Ready(link_up, has_inet, state_up, handshake)
            route == host.default_route \/ (ready /\ added)
            confirmed == ready /\ route
        IN  /\ host' = [host EXCEPT !.default_route = route]
            /\ poll' = Poll(poll.n + 1, link_up, has_inet, state_up, handshake,
                            ready, confirmed)
            /\ IF LeavesLoop(ready, confirmed)
               THEN /\ pc' = "save_persistent_config"
                    /\ UNCHANGED waited
               ELSE /\ waited' = waited + wait_interval
                    /\ UNCHANGED pc
    /\ UNCHANGED <<loaded, wg_config>>

\* the else of the loop: waited has reached max_wait, sys.exit(1)
WaitTimedOut ==
    /\ pc = "wait_interface"
    /\ waited >= max_wait
    /\ pc' = "exit_not_ready"
    /\ UNCHANGED <<loaded, wg_config, host, waited, poll>>

\* save_persistent_config: the rules, the ipset and the restore script are
\* written, or the tools are missing or a write raises and nothing more is
\* done about it
SavePersistentConfig ==
    /\ pc = "save_persistent_config"
    /\ \E saved \in BOOLEAN : host' = [host EXCEPT !.saved = saved]
    /\ pc' = "done"
    /\ UNCHANGED <<loaded, wg_config, waited, poll>>

NextRouting ==
    \/ CheckDependencies
    \/ ReadExcludes
    \/ GetRipeCountryIpv4
    \/ GetRipeFails
    \/ GetRipeReturns
    \/ ExpandRipe
    \/ BuildExcluded
    \/ ComputeAllowed
    \/ CreateIpset
    \/ FlushIpset
    \/ AddToIpset
    \/ IpsetLoaded
    \/ CleanupRoutingRules
    \/ SetupIptablesRules
    \/ UpdateWireguardConfig
    \/ RestartInterface
    \/ SetupRoutingRules
    \/ WaitForInterface
    \/ WaitTimedOut
    \/ SavePersistentConfig

SpecRouting == InitRouting /\ [][NextRouting]_vars

\* every command the loop of setup_routing_rules runs returns, and so does
\* its sleep: a run that is in the loop goes through its next pass, or out
SpecRoutingFair == SpecRouting /\ WF_vars(WaitForInterface) /\ WF_vars(WaitTimedOut)

(***************************************************************************)
(* update-wg-ipset.py run again and again on one host.  Steps 1 to 8 of    *)
(* main() leave the rules, the routes and the files of the host alone, so  *)
(* a run is followed here from step 9 on, with the ipset loaded: the feed  *)
(* is empty, there is no exclude.txt and no include.txt, and the allowed   *)
(* list is the whole address space.                                       *)
(***************************************************************************)
\* how a run that reached step 9 ends
RunEnded == {"exit_config_error", "exit_restart", "exit_not_ready", "done"}

InitRuns ==
    /\ pc = "cleanup_routing_rules"
    /\ cutoff_prefix = 0
    /\ exclude_file = File(FALSE, <<>>)
    /\ include_file = File(FALSE, <<>>)
    /\ raw_ipv4_list = <<>>
    /\ normalized = <<>>
    /\ local_excludes = <<>>
    /\ ripe_raw = <<>>
    /\ ripe_processed = <<>>
    /\ excluded_set = IPSet(<<>>)
    /\ include_cidrs = <<>>
    /\ allowed_cidrs = CidrStrings(AllowedFrom(IPSet(<<>>)))
    /\ wg_config = OldConfig
    /\ script = "update-wg-ipset"
    /\ host \in {FreshHost, BareHost, HostWithTableNamed}
    /\ ipset_exists = TRUE
    /\ ipset_members \in SUBSET SeqToSet(allowed_cidrs)
    /\ add_index = Len(allowed_cidrs)
    /\ waited = 0
    /\ poll = NoPoll
    /\ runs = 1

\* the script is started again after a run that ended: main() up to step 8
\* computes the list and loads the ipset anew, and is at step 9
RunAgain ==
    /\ pc \in RunEnded
    /\ runs < MaxRuns
    /\ runs' = runs + 1
    /\ ipset_members' \in SUBSET SeqToSet(allowed_cidrs)
    /\ host' = [host EXCEPT !.interface = "old"]
    /\ waited' = 0
    /\ poll' = NoPoll
    /\ pc' = "cleanup_routing_rules"
    /\ UNCHANGED <<cutoff_prefix, exclude_file, include_file, raw_ipv4_list, normalized,
                   local_excludes, ripe_raw, ripe_processed, excluded_set, include_cidrs,
                   allowed_cidrs, wg_config, script, ipset_exists, add_index>>

NextRuns ==
    \/ RunAgain
    \/ CleanupRoutingRules
    \/ SetupIptablesRules
    \/ UpdateWireguardConfig
    \/ RestartInterface
    \/ SetupRoutingRules
    \/ WaitForInterface
    \/ WaitTimedOut
    \/ SavePersistentConfig

SpecRuns == InitRuns /\ [][NextRuns]_vars

(***************************************************************************)
(* normalize_ripe_ipv4_list on its own, for a resource list of one range:  *)
(* every 'start-end' over the address space, start above end included.     *)
(***************************************************************************)
RangeFeeds == {<<RangeText(a, b)>> : a \in Addresses, b \in Addresses}

InitNormalize ==
    /\ pc = "normalize"
    /\ raw_ipv4_list \in RangeFeeds
    /\ cutoff_prefix = Width
    /\ exclude_file = File(FALSE, <<>>)
    /\ include_file = File(FALSE, <<>>)
    /\ normalized = <<>>
    /\ local_excludes = <<>>
    /\ ripe_raw = <<>>
    /\ ripe_processed = <<>>
    /\ excluded_set = {}
    /\ include_cidrs = <<>>
    /\ allowed_cidrs = <<>>
    /\ wg_config = OldConfig
    /\ script = "update-wg"
    /\ ipset_exists = FALSE
    /\ ipset_members = {}
    /\ add_index = 0
    /\ host = FreshHost
    /\ waited = 0
    /\ poll = NoPoll
    /\ runs = 1

\* get_ripe_country_ipv4: normalized = normalize_ripe_ipv4_list(raw_ipv4_list)
Normalize ==
    /\ pc = "normalize"
    /\ normalized' = NormalizeRipeIpv4List(raw_ipv4_list)
    /\ pc' = "get_ripe_return"
    /\ UNCHANGED <<cutoff_prefix, exclude_file, include_file, raw_ipv4_list, local_excludes,
                   ripe_raw, ripe_processed, excluded_set, include_cidrs, allowed_cidrs,
                   consumers>>

NextNormalize ==
    \/ Normalize
    \/ GetRipeReturns

SpecNormalize == InitNormalize /\ [][NextNormalize]_vars

(***************************************************************************)
(* read_cidrs_from_file on its own, for a list file of up to MaxLines + 1  *)
(* lines: entries, blank lines and comment lines, with and without white   *)
(* space around them.                                                      *)
(***************************************************************************)
ListLines ==
    {Bare(5), CidrText(4, 1), Padded(CidrText(1, 2)), NotAnIp,
     BlankLine, Padded(BlankLine), CommentLine, Padded(CommentLine)}
ListFiles ==
    {File(FALSE, <<>>)} \cup {File(TRUE, l) : l \in SeqsUpTo(ListLines, MaxLines + 1)}

InitRead ==
    /\ pc = "read_excludes"
    /\ exclude_file \in ListFiles
    /\ cutoff_prefix = Width
    /\ include_file = File(FALSE, <<>>)
    /\ raw_ipv4_list = <<>>
    /\ normalized = <<>>
    /\ local_excludes = <<>>
    /\ ripe_raw = <<>>
    /\ ripe_processed = <<>>
    /\ excluded_set = {}
    /\ include_cidrs = <<>>
    /\ allowed_cidrs = <<>>
    /\ wg_config = OldConfig
    /\ script = "update-wg"
    /\ ipset_exists = FALSE
    /\ ipset_members = {}
    /\ add_index = 0
    /\ host = FreshHost
    /\ waited = 0
    /\ poll = NoPoll
    /\ runs = 1

NextRead == ReadExcludes

SpecRead == InitRead /\ [][NextRead]_vars

(***************************************************************************)
(* The rewrite of the config by update-wg.py on its own, for a config of   *)
(* up to MaxConfig lines: section headers, blank lines, AllowedIPs lines   *)
(* with and without a value, and AllowedIPs lines that are commented out.  *)
(* The run has computed its list from exclude.txt and an empty feed, and   *)
(* the script is run again on what it wrote.                               *)
(***************************************************************************)
ConfigLines ==
    {OtherLine("[Peer]"), EmptyLine, AllowedIpsLine(<<CidrText(0, 0)>>),
     AllowedIpsLine(<<>>), CommentedLine(AllowedIpsLine(<<CidrText(0, 0)>>))}
Configs == SeqsUpTo(ConfigLines, MaxConfig)

\* exclude.txt: missing, half of the address space, all of it
ConfigExcludes ==
    {File(FALSE, <<>>), File(TRUE, <<CidrText(4, 1)>>), File(TRUE, <<CidrText(0, 0)>>)}

InitConfig ==
    /\ pc = "write_config"
    /\ cutoff_prefix = Width
    /\ exclude_file \in ConfigExcludes
    /\ include_file = File(FALSE, <<>>)
    /\ raw_ipv4_list = <<>>
    /\ normalized = <<>>
    /\ local_excludes = ReadCidrsFromFile(exclude_file)
    /\ ripe_raw = <<>>
    /\ ripe_processed = <<>>
    /\ excluded_set = IPSet(AllExcludes(local_excludes, ripe_processed))
    /\ include_cidrs = <<>>
    /\ allowed_cidrs = CidrStrings(AddInclude(AllowedFrom(excluded_set), include_cidrs))
    /\ wg_config \in Configs
    /\ script = "update-wg"
    /\ ipset_exists = FALSE
    /\ ipset_members = {}
    /\ add_index = 0
    /\ host = FreshHost
    /\ waited = 0
    /\ poll = NoPoll
    /\ runs = 1

\* update-wg.py is started again on the same inputs: main() up to step 8
\* computes the same list and is at the rewrite of the config
RewriteAgain ==
    /\ pc \in {"done", "crash_restart"}
    /\ runs < MaxRuns
    /\ runs' = runs + 1
    /\ pc' = "write_config"
    /\ UNCHANGED <<cutoff_prefix, exclude_file, include_file, raw_ipv4_list, normalized,
                   local_excludes, ripe_raw, ripe_processed, excluded_set, include_cidrs,
                   allowed_cidrs, wg_config, script, ipset_exists, ipset_members,
                   add_index, host, waited, poll>>

NextConfig ==
    \/ WriteConfig
    \/ ApplyConfigAndRestart
    \/ RewriteAgain

SpecConfig == InitConfig /\ [][NextConfig]_vars

(***************************************************************************)
(* What the entries mean, stated on addresses.                             *)
(***************************************************************************)
\* the block of prefix length plen that holds ip
BlockOf(ip, plen) == {a \in Addresses : a \div 2^(Width - plen) = ip \div 2^(Width - plen)}

\* the addresses a well-formed address or CIDR string denotes
Denoted(e) == IF e.form = "bare" THEN {e.ip} ELSE BlockOf(e.ip, e.plen)
DenotedBy(list) == UNION {Denoted(list[i]) : i \in DOMAIN list}

\* a feed block widened to the cutoff c
Widened(e, c) == IF e.plen > c THEN BlockOf(e.ip, c) ELSE BlockOf(e.ip, e.plen)
WidenedFeed(list, c) == UNION {Widened(list[i], c) : i \in DOMAIN list}

\* main() has computed allowed_cidrs
ListProduced ==
    pc \in {"write_config", "restart", "done", "crash_restart",
            "create_ipset", "flush_ipset", "add_to_ipset", "cleanup_routing_rules",
            "setup_iptables_rules", "update_wireguard_config", "exit_config_error",
            "restart_interface", "exit_restart", "setup_routing_rules",
            "wait_interface", "exit_not_ready", "save_persistent_config"}

FinalAllowed == DenotedBy(allowed_cidrs)

(***************************************************************************)
(* Claims.                                                                 *)
(***************************************************************************)
\* C1: for a cutoff that is a prefix length (or longer than any), the final
\* block list covers exactly (all addresses minus (the local excludes as
\* written, united with every feed block widened to the cutoff)) united with
\* the include list.
C1_FinalSetIsFormula ==
    (ListProduced /\ cutoff_prefix >= 0) =>
        FinalAllowed =
            (Addresses \ (DenotedBy(local_excludes) \cup WidenedFeed(ripe_raw, cutoff_prefix)))
                \cup DenotedBy(include_cidrs)

\* a run in which a feed block was widened, a local exclude and an include
\* entry were read, and the list was written
C1_Witness ==
    /\ pc = "done"
    /\ cutoff_prefix \in 1..(Width - 1)
    /\ \E i \in DOMAIN ripe_raw : ripe_raw[i].plen > cutoff_prefix
    /\ local_excludes # <<>>
    /\ include_cidrs # <<>>
    /\ FinalAllowed \notin {{}, Addresses}

\* C2: include overrides exclude: every address of every include entry is in
\* the final allowed set, excluded or not.
C2_IncludeOverridesExclude ==
    ListProduced =>
        \A i \in DOMAIN include_cidrs : Denoted(include_cidrs[i]) \subseteq FinalAllowed

\* an include entry that lies wholly in the excluded set, partly in the local
\* excludes and partly in the feed
C2_Witness ==
    /\ pc = "done"
    /\ \E i \in DOMAIN include_cidrs :
        /\ Denoted(include_cidrs[i]) \subseteq Covered(excluded_set)
        /\ Denoted(include_cidrs[i]) \cap DenotedBy(local_excludes) # {}
        /\ Denoted(include_cidrs[i]) \cap DenotedBy(ripe_processed) # {}

\* C3: the include list re-admits only its own addresses: an address covered
\* by the local excludes or the aggregated feed and by no include entry is
\* not in the final allowed set.
C3_IncludeReadmitsOnlyItself ==
    ListProduced =>
        \A a \in (DenotedBy(local_excludes) \cup DenotedBy(ripe_processed))
                    \ DenotedBy(include_cidrs) :
            a \notin FinalAllowed

\* exclude a block, include one address of it, cutoff Width: that address is
\* allowed and the rest of the block is not
C3_Witness ==
    /\ pc = "done"
    /\ cutoff_prefix = Width
    /\ local_excludes = <<CidrText(4, 1)>>
    /\ include_cidrs = <<Bare(5)>>
    /\ FinalAllowed \cap BlockOf(4, 1) = {5}

\* the block list is canonical
Aligned(e) == e.ip % 2^(Width - e.plen) = 0
Siblings(e, f) ==
    /\ e.plen = f.plen
    /\ e.plen > 0
    /\ Denoted(e) \cap Denoted(f) = {}
    /\ Denoted(e) \cup Denoted(f) = BlockOf(e.ip, e.plen - 1)
Canonical(list) ==
    /\ \A i, j \in DOMAIN list : i < j => list[i].ip < list[j].ip
    /\ \A i \in DOMAIN list : Aligned(list[i])
    /\ \A i, j \in DOMAIN list : i # j => Denoted(list[i]) \cap Denoted(list[j]) = {}
    /\ \A i, j \in DOMAIN list : ~Siblings(list[i], list[j])

\* C4: the final block list is canonical for every input: strictly increasing
\* by base address, every base aligned to its prefix length, no two blocks
\* overlapping, no two blocks mergeable siblings.
C4_FinalListCanonical == ListProduced => Canonical(allowed_cidrs)

\* what does hold of the list: it is canonical once every block is read as
\* the network it denotes
AsNetwork(e) == CidrText(e.ip - (e.ip % 2^(Width - e.plen)), e.plen)
C4_CanonicalAsNetworks ==
    ListProduced => Canonical([i \in DOMAIN allowed_cidrs |-> AsNetwork(allowed_cidrs[i])])

\* C5: a malformed line in exclude.txt is skipped and does not abort the run:
\* with every other line an address or a CIDR, main() does not stop at the
\* construction of the excluded set.
C5_MalformedExcludeLineSkipped ==
    ( /\ \E i \in DOMAIN exclude_file.lines : exclude_file.lines[i] = NotAnIp
      /\ \A i \in DOMAIN exclude_file.lines :
            exclude_file.lines[i] = NotAnIp \/ ParsesAsNetwork(exclude_file.lines[i]) )
    => pc # "exit_ipset_error"

\* an entry in one of the three forms of the specification, well formed
WellFormed(e) ==
    \/ ParsesAsNetwork(e)
    \/ e.form = "range" /\ e.ip \in Addresses /\ e.end \in Addresses /\ e.ip <= e.end
WellFormedOnly(list) == SelectSeq(list, WellFormed)

\* C6: a malformed feed entry is skipped without raising:
\* normalize_ripe_ipv4_list returns what it returns for the other entries
\* alone, in their order.
C6_MalformedFeedEntrySkipped ==
    pc = "get_ripe_return" =>
        normalized = NormalizeRipeIpv4List(WellFormedOnly(raw_ipv4_list))

\* C7: a line of exclude.txt or include.txt is accepted in each of the three
\* forms: files of well-formed addresses, CIDRs and ranges stop main() neither
\* at the excluded set nor at the include set.
C7_ThreeFormsAccepted ==
    /\ (\A i \in DOMAIN local_excludes : WellFormed(local_excludes[i]))
            => pc # "exit_ipset_error"
    /\ (\A i \in DOMAIN include_cidrs : WellFormed(include_cidrs[i]))
            => pc # "crash_include"

\* C8: a cutoff outside 0..Width is fatal: no block list is computed and the
\* config is not written.
C8_BadCutoffRefused ==
    cutoff_prefix \notin 0..Width => (~ListProduced /\ wg_config = OldConfig)

\* C9: a run applies the complete computed list or nothing: when the loop
\* over allowed_cidrs is over, the ipset holds every block of the list or
\* none of them.
C9_AllOrNothing ==
    pc = "cleanup_routing_rules" =>
        (ipset_members = SeqToSet(allowed_cidrs) \/ ipset_members = {})

\* C11: aggregation to a cutoff c in 0..Width: expand_small_networks gives one
\* string per feed block, in order; a block with a prefix length above c
\* becomes the block of prefix length c that holds it, written with its base
\* masked to c bits, and a block with a prefix length of at most c denotes
\* the addresses it denoted.
C11_AggregationToCutoff ==
    (pc = "build_excluded" /\ cutoff_prefix \in 0..Width) =>
        /\ Len(ripe_processed) = Len(ripe_raw)
        /\ \A i \in DOMAIN ripe_raw :
            IF ripe_raw[i].plen > cutoff_prefix
            THEN /\ ripe_processed[i] =
                        CidrText(ripe_raw[i].ip - (ripe_raw[i].ip % 2^(Width - cutoff_prefix)),
                                 cutoff_prefix)
                 /\ Denoted(ripe_raw[i]) \subseteq Denoted(ripe_processed[i])
            ELSE Denoted(ripe_processed[i]) = Denoted(ripe_raw[i])

\* a feed with a block narrower than the cutoff whose base has bits below the
\* cutoff, and a block that is not narrower
C11_Witness ==
    /\ pc = "build_excluded"
    /\ cutoff_prefix \in 0..Width
    /\ \E i \in DOMAIN ripe_raw :
        /\ ripe_raw[i].plen > cutoff_prefix
        /\ ripe_raw[i].ip % 2^(Width - cutoff_prefix) # 0
    /\ \E i \in DOMAIN ripe_raw : ripe_raw[i].plen <= cutoff_prefix

\* C12: aggregation monotonicity, for a cutoff c in 0..Width: every address of
\* the feed blocks is in the excluded set built from the aggregated blocks,
\* and (with no local excludes beside them) every block of that set has a
\* prefix length of at most c.
C12_AggregationMonotone ==
    (pc = "add_include" /\ cutoff_prefix \in 0..Width) =>
        /\ DenotedBy(ripe_raw) \subseteq Covered(excluded_set)
        /\ local_excludes = <<>> => \A n \in excluded_set : n.prefixlen <= cutoff_prefix

\* feed blocks narrower than the cutoff were widened and the set merged them
C12_Witness ==
    /\ pc = "add_include"
    /\ cutoff_prefix \in 1..(Width - 1)
    /\ local_excludes = <<>>
    /\ \E i \in DOMAIN ripe_raw : ripe_raw[i].plen > cutoff_prefix
    /\ Cardinality(excluded_set) < Len(ripe_processed)
    /\ excluded_set # {}

\* C13: a 'start-end' entry with start <= end is converted to a block list
\* that is ascending, covers exactly the addresses from start to end, has
\* every block aligned to its prefix length and no two neighbours that would
\* merge into a larger aligned block; a single address gives one block of
\* full prefix length, 1-3 gives the address 1 and the pair 2-3, and the
\* whole address space gives the one block of prefix length 0.
C13_RangeToCidr ==
    ( /\ pc = "get_ripe_return"
      /\ Len(raw_ipv4_list) = 1
      /\ raw_ipv4_list[1].form = "range"
      /\ raw_ipv4_list[1].ip <= raw_ipv4_list[1].end )
    => LET start == raw_ipv4_list[1].ip
           end == raw_ipv4_list[1].end
           out == normalized
       IN  /\ \A i, j \in DOMAIN out : i < j => out[i].ip < out[j].ip
           /\ \A i \in DOMAIN out : out[i].form = "cidr" /\ Aligned(out[i])
           /\ DenotedBy(out) = start..end
           /\ \A i \in DOMAIN out : i < Len(out) => ~Siblings(out[i], out[i + 1])
           /\ start = end => out = <<CidrText(start, Width)>>
           /\ (start = 1 /\ end = 3) => out = <<CidrText(1, Width), CidrText(2, Width - 1)>>
           /\ (start = 0 /\ end = MaxInt) => out = <<CidrText(0, 0)>>

\* the range 1-3 has been converted
C13_Witness ==
    /\ pc = "get_ripe_return"
    /\ raw_ipv4_list = <<RangeText(1, 3)>>
    /\ normalized = <<CidrText(1, Width), CidrText(2, Width - 1)>>

\* exclude.txt, or include.txt, is absent or has no line
NoLines(file) == ~file.exists \/ file.lines = <<>>

\* C14: an absent or empty exclude.txt or include.txt is not an error:
\* reading it gives no entry, main() stops neither at the excluded set nor at
\* the include set because of it, and with both lists empty the final list
\* is everything outside the aggregated feed.
C14_MissingOrEmptyFile ==
    /\ (pc # "read_excludes" /\ NoLines(exclude_file))
            => (local_excludes = <<>> /\ pc # "exit_ipset_error")
    /\ NoLines(include_file) => (include_cidrs = <<>> /\ pc # "crash_include")
    /\ (ListProduced /\ NoLines(exclude_file) /\ NoLines(include_file))
            => FinalAllowed = Addresses \ DenotedBy(ripe_processed)

\* a run with no exclude.txt and an include.txt without lines, to its end
C14_Witness ==
    /\ pc = "done"
    /\ ~exclude_file.exists
    /\ include_file = File(TRUE, <<>>)
    /\ ripe_processed # <<>>
    /\ FinalAllowed \notin {{}, Addresses}

\* C15: reading a list file, a blank line and a line whose first non-blank
\* character is '#' give no entry, and every other line gives one entry, its
\* text without the white space around it, in the order of the file.
C15_LinesToEntries ==
    pc = "get_ripe" =>
        LET lines == exclude_file.lines
            kept == {i \in DOMAIN lines : lines[i].form \notin {"blank", "comment"}}
        IN  /\ Len(local_excludes) = Cardinality(kept)
            /\ \A i \in kept :
                    local_excludes[Cardinality({j \in kept : j <= i})]
                        = [lines[i] EXCEPT !.pad = FALSE]

\* a file of an entry with white space around it, a comment or blank line,
\* and another entry
C15_Witness ==
    /\ pc = "get_ripe"
    /\ Len(exclude_file.lines) = 3
    /\ exclude_file.lines[1] = Padded(CidrText(1, 2))
    /\ exclude_file.lines[2] \in {Padded(CommentLine), Padded(BlankLine)}
    /\ exclude_file.lines[3] = Bare(5)
    /\ local_excludes = <<CidrText(1, 2), Bare(5)>>

\* main() has built excluded_set
ExcludedBuilt == pc = "add_include" \/ pc = "crash_include" \/ ListProduced

\* C16: complement laws, for every excluded set A the scripts build, with
\* complement(A) = full_ipv4 - A as main() computes the allowed set: A - A is
\* empty, A and its complement share no address, and A | complement(A) is
\* the one block of prefix length 0; with no include entries the final list
\* is that complement.
C16_ComplementLaws ==
    ExcludedBuilt =>
        LET A == excluded_set
            complement == AllowedFrom(A)
        IN  /\ IPSetDifference(A, A) = {}
            /\ Covered(A) \cap Covered(complement) = {}
            /\ IPSetUnion(A, complement) = FullIpv4
            /\ (ListProduced /\ include_cidrs = <<>>) => allowed_cidrs = CidrStrings(complement)

\* an excluded set of several blocks, one of them written with host bits,
\* whose complement has several blocks too
C16_Witness ==
    /\ pc = "done"
    /\ include_cidrs = <<>>
    /\ Cardinality(excluded_set) >= 2
    /\ \E n \in excluded_set : n.ip # First(n)
    /\ Len(allowed_cidrs) >= 2

\* C17: union is commutative and associative on the block sets of a run (A
\* the local excludes, B the aggregated feed, C the include list): A | B and
\* B | A are the same blocks in the same order, so are A | (B | C) and
\* (A | B) | C, and the excluded set is the same when the feed blocks are
\* put before the local excludes.
C17_UnionLaws ==
    (ListProduced /\ ~IPSetRaises(local_excludes)) =>
        LET A == IPSet(local_excludes)
            B == IPSet(ripe_processed)
            C == IPSet(include_cidrs)
        IN  /\ IterCidrs(IPSetUnion(A, B)) = IterCidrs(IPSetUnion(B, A))
            /\ IterCidrs(IPSetUnion(A, C)) = IterCidrs(IPSetUnion(C, A))
            /\ IterCidrs(IPSetUnion(A, IPSetUnion(B, C)))
                   = IterCidrs(IPSetUnion(IPSetUnion(A, B), C))
            /\ IterCidrs(excluded_set) = IterCidrs(IPSet(ripe_processed \o local_excludes))

\* three non-empty lists, the local excludes and the feed meeting in a block
\* that is in neither
C17_Witness ==
    /\ pc = "done"
    /\ local_excludes # <<>> /\ ripe_processed # <<>> /\ include_cidrs # <<>>
    /\ IPSet(local_excludes) # IPSet(ripe_processed)
    /\ \E n \in excluded_set : n \notin IPSet(local_excludes) \cup IPSet(ripe_processed)

\* the steps of update-wg-ipset.py that set routing up
RoutingSetUp ==
    \/ host'.ip_rules > host.ip_rules
    \/ host'.default_route /\ ~host.default_route
    \/ host'.rt_tables_entries # host.rt_tables_entries
    \/ host'.rt_tables_exists # host.rt_tables_exists

\* C18: the order of the steps of a run of update-wg-ipset.py: when the MARK
\* rules are installed the ipset has been flushed and every block of the
\* list has been through 'ipset add', and the ipset is not touched
\* afterwards; the interface is restarted only with the config rewritten;
\* the policy rule, the table name and the default route are set up only
\* after the restart succeeded, and a restart that failed ends the run, which
\* sets no routing up.
C18_StepOrder ==
    /\ [][(pc = "setup_iptables_rules" /\ pc' # pc)
            => (add_index = Len(allowed_cidrs) /\ ipset_members \subseteq SeqToSet(allowed_cidrs))]_vars
    /\ [][ipset_members' # ipset_members
            => pc \in {"create_ipset", "flush_ipset", "add_to_ipset"}]_vars
    /\ [](host.interface # "old" => wg_config = UpdateWireguardConfigForIpset(OldConfig))
    /\ [][RoutingSetUp => host.interface = "new"]_vars
    /\ [](pc = "exit_restart" => host.interface = "failed")
    /\ [][pc = "exit_restart" => UNCHANGED vars]_vars

\* a run that went through: the list is in the ipset, the MARK rules are in
\* place, the interface was restarted and the rule and route were added
C18_Witness ==
    /\ pc = "done"
    /\ host.interface = "new"
    /\ allowed_cidrs # <<>>
    /\ ipset_members = SeqToSet(allowed_cidrs)
    /\ host.output_rules = 1 /\ host.prerouting_rules = 1
    /\ host.ip_rules = 1 /\ host.default_route

AllPassed(p) == p.link_up /\ p.has_inet /\ p.state_up /\ p.handshake

\* C19: setup_routing_rules issues 'ip route add default dev wg1' only in a
\* pass of its loop in which all four checks passed: a pass that issued it
\* saw the link, the inet address, state UP and a latest handshake, and the
\* default route comes into the table only in such a pass.
C19_RouteAddOnlyWhenReady ==
    /\ [](poll.route_add => AllPassed(poll))
    /\ [][(host'.default_route /\ ~host.default_route)
            => (pc = "wait_interface" /\ poll'.n = poll.n + 1
                /\ poll'.route_add /\ AllPassed(poll'))]_vars

\* the route was added in a pass that came after a pass in which a check
\* failed
C19_Witness ==
    /\ pc = "save_persistent_config"
    /\ poll.n >= 2
    /\ poll.route_add
    /\ host.default_route

\* C20: the wait of setup_routing_rules ends: the loop makes at most
\* max_wait / wait_interval = 10 passes, setup_routing_rules returns only
\* with the default route found in the table, and a run that waits gets out
\* of the loop, by that return or by sys.exit(1).
C20_WaitEnds ==
    /\ [](/\ waited <= max_wait
          /\ poll.n <= max_wait \div wait_interval
          /\ pc \in {"save_persistent_config", "done"}
                => (poll.confirmed /\ host.default_route))
    /\ (pc = "wait_interface" ~> pc \in {"save_persistent_config", "exit_not_ready"})

\* the route was found in the last pass the loop can make
C20_Witness ==
    /\ pc = "save_persistent_config"
    /\ poll.n = max_wait \div wait_interval
    /\ poll.confirmed

(***************************************************************************)
(* C21: /etc/iproute2/rt_tables gets the line '1000 wg1_table' only when   *)
(* it does not have it: however many times the script ran, the file has    *)
(* at most one such line, and setup_routing_rules leaves a file that has   *)
(* the line as it is.                                                      *)
(***************************************************************************)
C21_TableNamedOnce ==
    /\ [](host.rt_tables_entries <= 1)
    /\ [][(pc = "setup_routing_rules" /\ host.rt_tables_entries >= 1)
            => host'.rt_tables_entries = host.rt_tables_entries]_vars

(***************************************************************************)
(* C22: the kernel rules do not pile up from run to run, runs that gave up *)
(* in the wait for the interface included: there is at most one policy     *)
(* rule with the fwmark, one MARK rule in OUTPUT and one in mangle         *)
(* PREROUTING, and a rule is added only where the run has left none.       *)
(***************************************************************************)
C22_RulesDoNotAccumulate ==
    /\ [](/\ host.ip_rules <= 1
          /\ host.output_rules <= 1
          /\ host.prerouting_rules <= 1)
    /\ [][/\ host'.ip_rules > host.ip_rules => host.ip_rules = 0
          /\ host'.output_rules > host.output_rules => host.output_rules = 0
          /\ host'.prerouting_rules > host.prerouting_rules
                => host.prerouting_rules = 0]_vars

\* the last of the runs went through, and each rule is there once
C22_Witness ==
    /\ runs = MaxRuns
    /\ pc = "done"
    /\ host.ip_rules = 1
    /\ host.output_rules = 1
    /\ host.prerouting_rules = 1

(***************************************************************************)
(* C23: when the commands of the load succeed, the ipset holds the blocks  *)
(* computed in this run and no other.  The set is empty when the first     *)
(* block is about to be added, whether it was there before the run or not; *)
(* once the loop over the list is over no member is from outside the list, *)
(* and when every 'ipset add' has put its block in, the members are the    *)
(* blocks of the list.                                                     *)
(***************************************************************************)
C23_IpsetHoldsComputed ==
    /\ (pc = "add_to_ipset" /\ add_index = 0) => ipset_members = {}
    /\ pc = "cleanup_routing_rules" => ipset_members \subseteq SeqToSet(allowed_cidrs)
    /\ (pc = "cleanup_routing_rules" /\ Cardinality(ipset_members) = Len(allowed_cidrs))
        => ipset_members = SeqToSet(allowed_cidrs)

\* the set was there with a block of an earlier run, two blocks or more were
\* loaded, and the block of the earlier run is gone
C23_Witness ==
    /\ host = HostAfterRun
    /\ pc = "cleanup_routing_rules"
    /\ Len(allowed_cidrs) >= 2
    /\ ipset_members = SeqToSet(allowed_cidrs)
    /\ StaleMembers \cap ipset_members = {}

(***************************************************************************)
(* C24: the rewrite of the config by update-wg.py changes AllowedIPs lines *)
(* and nothing else.  In a config that has AllowedIPs lines each of them   *)
(* becomes the new line and every other line stays where and what it was;  *)
(* in a config that has none the new line comes after the content, which   *)
(* is otherwise kept; and a rewrite by a later run, which has computed the *)
(* same list, changes nothing.                                             *)
(***************************************************************************)
HasAllowedIps(content) == \E i \in DOMAIN content : content[i].kind = "allowed"

C24_OnlyAllowedIpsChanged ==
    [][pc = "write_config" =>
        LET allowed_ips_line == AllowedIpsLine(allowed_cidrs)
        IN  /\ HasAllowedIps(wg_config) =>
                /\ Len(wg_config') = Len(wg_config)
                /\ \A i \in DOMAIN wg_config :
                      wg_config'[i] = IF wg_config[i].kind = "allowed"
                                      THEN allowed_ips_line
                                      ELSE wg_config[i]
            /\ ~HasAllowedIps(wg_config) =>
                wg_config' = Append(Rstrip(wg_config), allowed_ips_line)
            /\ runs > 1 => wg_config' = wg_config]_vars

\* a config the rewrite treats as C24 says: it has a line that is not blank,
\* no AllowedIPs line of it is without a value or right after a blank line,
\* and the list the run computed has a block
PlainConfig(content) ==
    /\ Rstrip(content) # <<>>
    /\ \A i \in DOMAIN content :
          content[i].kind = "allowed" =>
              /\ content[i].value # <<>>
              /\ i > 1 => content[i - 1].kind # "blank"

C24_HoldsForPlainConfigs ==
    [][(pc = "write_config" /\ PlainConfig(wg_config) /\ allowed_cidrs # <<>>) =>
        LET allowed_ips_line == AllowedIpsLine(allowed_cidrs)
        IN  /\ HasAllowedIps(wg_config) =>
                /\ Len(wg_config') = Len(wg_config)
                /\ \A i \in DOMAIN wg_config :
                      wg_config'[i] = IF wg_config[i].kind = "allowed"
                                      THEN allowed_ips_line
                                      ELSE wg_config[i]
            /\ ~HasAllowedIps(wg_config) =>
                wg_config' = Append(Rstrip(wg_config), allowed_ips_line)
            /\ NewConfigContent(wg_config', allowed_cidrs) = wg_config']_vars

====
